---- MODULE Spec2Model ----
(***************************************************************************)
(* Model of the bitemporal transfer API: handlers.HandleTransaction and    *)
(* processTransaction running as concurrent request handlers against one   *)
(* PostgreSQL database (tables users, balances, transaction_history) at    *)
(* the default READ COMMITTED isolation level.                             *)
(*                                                                         *)
(* Every SQL statement of processTransaction is one step of the handler    *)
(* that runs it.  A transaction's writes stay private (wrDel, wrAdd, wrJ)  *)
(* until its COMMIT and are dropped by a ROLLBACK; row locks taken by      *)
(* SELECT ... FOR UPDATE and by UPDATE are held until the transaction      *)
(* ends.  A statement that the server rejects (a unique violation) puts    *)
(* the transaction in the failed state, in which COMMIT rolls back.        *)
(***************************************************************************)
EXTENDS Integers, FiniteSets, Sequences, TLC

VARIABLES
    users,      \* table users: the set of user_id
    balances,   \* table balances, committed rows
    journal,    \* table transaction_history, committed rows
    nextId,     \* the sequence behind transaction_history.id SERIAL
    now,        \* the clock read by time.Now() and CURRENT_TIMESTAMP
    scenario,   \* which database and which clients the run has (fixed by Init)
    pc,         \* position of each request handler
    req,        \* the TransactionRequest bound by each handler
    resp,       \* the HTTP response of each handler
    txStart,    \* start time of each handler's database transaction
    held,       \* row locks each transaction holds: keys <<user_id, valid_from>>
    wrDel,      \* committed balance rows each open transaction has replaced
    wrAdd,      \* balance row versions each open transaction has written
    wrJ,        \* transaction_history rows each open transaction has inserted
    failed,     \* the transaction is in the server's failed state
    ret         \* the error processTransaction returns ("" is nil)

vars == <<users, balances, journal, nextId, now, scenario, pc, req, resp,
          txStart, held, wrDel, wrAdd, wrJ, failed, ret>>

(***************************************************************************)
(* Bounds of the model.                                                    *)
(***************************************************************************)
MaxTime == 2
MaxAmount == 1
IntegerBits == 4

(***************************************************************************)
(* Time.  Instants are 0 .. Inf; Genesis is the valid_from of the rows the *)
(* database is provisioned with, the clock runs over 1 .. MaxTime, and Inf *)
(* is the literal '9999-12-31 23:59:59' that marks an open row.  Inf is an *)
(* ordinary timestamp: a request may carry it as its effective_date.       *)
(***************************************************************************)
Genesis == 0
Inf == MaxTime + 1
Instants == 1 .. Inf

(***************************************************************************)
(* Integers.  Column amount is INTEGER, a signed integer of IntegerBits    *)
(* bits (32 in PostgreSQL): the server refuses a value outside MinInteger  *)
(* .. MaxInteger.  Amount is a Go int, which on the 64-bit platform the    *)
(* README requires has twice that width; its arithmetic wraps.             *)
(***************************************************************************)
MaxInteger == 2 ^ (IntegerBits - 1) - 1
MinInteger == 0 - 2 ^ (IntegerBits - 1)
GoIntBits == 2 * IntegerBits

\* The value of width bits that an integer operation with exact result v has.
Wrap(v, width) == ((v + 2 ^ (width - 1)) % 2 ^ width) - 2 ^ (width - 1)

\* The request handlers, numbered in the order their requests arrive.
Procs == {"h1", "h2", "h3"}
Order == [p \in Procs |-> CASE p = "h1" -> 1 [] p = "h2" -> 2 [] OTHER -> 3]

\* Identifiers a request may name.  "ghost" is never in table users.
Ids == {"ghost", "u1", "u2", "u3", "u4"}

\* Go's string order on the identifiers (senderID > receiverID).
Rank == [i \in Ids |->
            CASE i = "ghost" -> 1 [] i = "u1" -> 2 [] i = "u2" -> 3
              [] i = "u3" -> 4 [] OTHER -> 5]

TxIds == {"t1", "t2"}

TransactionRequest(senders, receivers, amounts) ==
    [sender_id : senders, receiver_id : receivers, amount : amounts,
     transaction_id : TxIds, effective_date : Instants]

NoRequest ==
    [sender_id |-> "", receiver_id |-> "", amount |-> 0,
     transaction_id |-> "", effective_date |-> 0]

Balance(u, a, from, to) ==
    [user_id |-> u, amount |-> a, valid_from |-> from, valid_to |-> to]

Key(r) == <<r.user_id, r.valid_from>>

NoResponse == [code |-> 0, error |-> ""]
Response(code, msg) == [code |-> code, error |-> msg]

(***************************************************************************)
(* Scenarios.  A scenario fixes the provisioned database and the clients.  *)
(*   transfers   users u1, u2 with a balance row and u3 with none; two     *)
(*               clients send any well-formed request from u1 or u2 to any *)
(*               of the three                                              *)
(*   pairs       users u1 .. u4 with a balance row; two clients, one       *)
(*               sending u1 -> u2 and one sending u3 -> u4                 *)
(*   duplicates  the database of transfers; three clients send one and the *)
(*               same request                                              *)
(*   boundary    the database of transfers; two clients send requests that *)
(*               may name a user the database does not have and may carry  *)
(*               an amount of zero or less                                 *)
(*   chain       users u1, u2, u3 with a balance row; three clients send   *)
(*               transfers around the cycle u1 -> u2 -> u3 -> u1 or the    *)
(*               reverse transfer u2 -> u1, all dated MaxTime; the first   *)
(*               and the third carry one transaction_id                    *)
(*   outage      the database of transfers; two clients send transfers     *)
(*               from u1 to u2, and the store may fail a COMMIT            *)
(*   width       users u1, u2, u3 with a balance row, u1 with one less     *)
(*               than the greatest INTEGER; two clients send transfers     *)
(*               from u2 or u3 to u1, of a small amount or of one more     *)
(*               than the greatest INTEGER                                 *)
(***************************************************************************)
Requests(sc) ==
    CASE sc = "pairs" ->
            {c \in TransactionRequest({"u1", "u3"}, {"u2", "u4"}, 1 .. MaxAmount) :
                Rank[c.receiver_id] = Rank[c.sender_id] + 1}
      [] sc = "duplicates" ->
            TransactionRequest({"u1", "u2"}, {"u1", "u2"}, 1 .. MaxAmount)
      [] sc = "chain" ->
            {c \in TransactionRequest({"u1", "u2", "u3"}, {"u1", "u2", "u3"},
                                      1 .. MaxAmount) :
                /\ <<c.sender_id, c.receiver_id>> \in
                      {<<"u1", "u2">>, <<"u2", "u3">>, <<"u3", "u1">>, <<"u2", "u1">>}
                /\ c.effective_date = MaxTime}
      [] sc = "width" ->
            TransactionRequest({"u2", "u3"}, {"u1"},
                               (1 .. MaxAmount) \cup {MaxInteger + 1})
      [] sc = "outage" ->
            TransactionRequest({"u1"}, {"u2"}, 1 .. MaxAmount)
      [] sc = "boundary" ->
            TransactionRequest({"ghost", "u1"}, {"ghost", "u2", "u3"},
                               (0 - 1) .. MaxAmount)
      [] OTHER ->
            TransactionRequest({"u1", "u2"}, {"u1", "u2", "u3"}, 1 .. MaxAmount)

Clients(sc) == IF sc \in {"duplicates", "chain"} THEN 3 ELSE 2

\* The request handler p may receive in the scenario, given the requests
\* already received.  Transaction ids are interchangeable names: t1 is the
\* one the first request carries.
MaySend(sc, p, c) ==
    /\ c \in Requests(sc)
    /\ Order[p] <= Clients(sc)
    /\ Order[p] = 1 => c.transaction_id = "t1"
    /\ sc = "chain" => c.transaction_id = (IF Order[p] = 2 THEN "t2" ELSE "t1")
    /\ sc = "duplicates" => \A q \in Procs : pc[q] # "idle" => req[q] = c

(***************************************************************************)
(* The database as SetupTestDB provisions it (amounts scaled down).  u3 is  *)
(* a row of users that no row of balances refers to: the foreign key runs  *)
(* from balances to users only, and the two tables are filled by separate  *)
(* INSERT statements.                                                      *)
(***************************************************************************)
SetupTestDB(sc) ==
    /\ users = IF sc = "pairs" THEN {"u1", "u2", "u3", "u4"} ELSE {"u1", "u2", "u3"}
    /\ balances = {Balance("u1", IF sc = "width" THEN MaxInteger - 1 ELSE 2,
                            Genesis, Inf),
                    Balance("u2", 1, Genesis, Inf)}
                    \cup (IF sc \in {"pairs", "chain", "width"}
                          THEN {Balance("u3", 2, Genesis, Inf)} ELSE {})
                    \cup (IF sc = "pairs"
                          THEN {Balance("u4", 1, Genesis, Inf)} ELSE {})
    /\ journal = {}
    /\ nextId = 1

Idle ==
    /\ pc = [p \in Procs |-> "idle"]
    /\ req = [p \in Procs |-> NoRequest]
    /\ resp = [p \in Procs |-> NoResponse]
    /\ txStart = [p \in Procs |-> 0]
    /\ held = [p \in Procs |-> {}]
    /\ wrDel = [p \in Procs |-> {}]
    /\ wrAdd = [p \in Procs |-> {}]
    /\ wrJ = [p \in Procs |-> {}]
    /\ failed = [p \in Procs |-> FALSE]
    /\ ret = [p \in Procs |-> ""]

InitScenario(sc) ==
    /\ scenario = sc
    /\ SetupTestDB(sc)
    /\ now = 1
    /\ Idle

Init == InitScenario("transfers")
InitPairs == InitScenario("pairs")
InitDuplicates == InitScenario("duplicates")
InitBoundary == InitScenario("boundary")
InitChain == InitScenario("chain")
InitOutage == InitScenario("outage")
InitWidth == InitScenario("width")

(***************************************************************************)
(* What a statement of transaction p sees: the committed rows, with p's    *)
(* own writes in place of the rows it replaced.                            *)
(***************************************************************************)
View(p) == (balances \ wrDel[p]) \cup wrAdd[p]

\* A WHERE clause without valid_to = '9999-12-31 23:59:59'.
EveryRow(rows, u) == {r \in rows : r.user_id = u}

OpenRows(rows, u) == {r \in rows : r.user_id = u /\ r.valid_to = Inf}

LockedByOther(p, k) == \E q \in Procs \ {p} : k \in held[q]

\* return err out of processTransaction: the deferred function runs next.
\* sqlError: the server rejected the statement, the transaction is failed.
Fail(p, msg, sqlError) ==
    /\ ret' = [ret EXCEPT ![p] = msg]
    /\ failed' = [failed EXCEPT ![p] = failed[p] \/ sqlError]
    /\ pc' = [pc EXCEPT ![p] = "defer"]

\* A validator that lets every request through.
ValidateNothing(c) == TRUE

\* c.Validate(&req) with the tags of TransactionRequest: every field is
\* required (not its zero value) and Amount is gt=0.
Validate(c) ==
    /\ c.sender_id # "" /\ c.receiver_id # "" /\ c.transaction_id # ""
    /\ c.amount # 0 /\ c.amount > 0

\* A comparison that also holds of equal instants.
NotAfter(t, u) == t <= u

\* time.Time.Before: t is strictly earlier than u.
Before(t, u) == t < u

(***************************************************************************)
(* HandleTransaction up to the call of processTransaction: Bind, Validate  *)
(* (amount gt=0) and the effective_date check against time.Now().          *)
(***************************************************************************)
HandleTransaction(p, c) ==
    /\ pc[p] = "idle"
    /\ \A q \in Procs : Order[q] < Order[p] => pc[q] # "idle"
    /\ MaySend(scenario, p, c)
    /\ req' = [req EXCEPT ![p] = c]
    /\ IF ~Validate(c)
       THEN /\ resp' = [resp EXCEPT ![p] = Response(400, "invalid request data")]
            /\ pc' = [pc EXCEPT ![p] = "done"]
       ELSE IF Before(c.effective_date, now)
       THEN /\ resp' = [resp EXCEPT ![p] = Response(400, "effective_date before now")]
            /\ pc' = [pc EXCEPT ![p] = "done"]
       ELSE /\ resp' = resp
            /\ pc' = [pc EXCEPT ![p] = "begin"]
    /\ UNCHANGED <<users, balances, journal, nextId, now, scenario, txStart, held,
                   wrDel, wrAdd, wrJ, failed, ret>>

\* An order of the steps in which the sender is debited before the
\* duplicate check.
NextStepDebitFirst(step) ==
    CASE step = "lock1" -> "lock2"
      [] step = "lock2" -> "debit"
      [] step = "debit" -> "dup"
      [] step = "dup" -> "credit"
      [] step = "credit" -> "record"
      [] OTHER -> "defer"

\* The statements of processTransaction after the two checkUserExists, in
\* the order of the function body: acquireLock (one pass per party),
\* checkDuplicateTransaction, updateBalance of the sender, updateBalance of
\* the receiver, recordTransaction, and the deferred function at the return.
NextStep(step) ==
    CASE step = "lock1" -> "lock2"
      [] step = "lock2" -> "dup"
      [] step = "dup" -> "debit"
      [] step = "debit" -> "credit"
      [] step = "credit" -> "record"
      [] OTHER -> "defer"

\* checkUserExists: SELECT COUNT(*) FROM users WHERE user_id = $1 finds a row.
checkUserExists(userID) == Cardinality({u \in users : u = userID}) # 0

\* processTransaction from db.Beginx() through the two calls of
\* checkUserExists.  Table users never changes, so the three statements are
\* one step.
processTransaction(p) ==
    /\ pc[p] = "begin"
    /\ txStart' = [txStart EXCEPT ![p] = now]
    /\ IF checkUserExists(req[p].sender_id) /\ checkUserExists(req[p].receiver_id)
       THEN /\ pc' = [pc EXCEPT ![p] = "lock1"]
            /\ UNCHANGED <<ret, failed>>
       ELSE Fail(p, "User does not exist", FALSE)
    /\ UNCHANGED <<users, balances, journal, nextId, now, scenario, req, resp, held,
                   wrDel, wrAdd, wrJ>>

\* The ids in the order the request names them.
LockIdsUnsorted(r) == <<r.sender_id, r.receiver_id>>

\* The ids of acquireLock, in ascending order.
LockIds(r) ==
    IF Rank[r.sender_id] > Rank[r.receiver_id]
    THEN <<r.receiver_id, r.sender_id>>
    ELSE <<r.sender_id, r.receiver_id>>

\* A SELECT without FOR UPDATE: no row is locked.
LockNoRows(p) == {}

\* One pass of acquireLock's loop:
\* SELECT * FROM balances WHERE user_id = $1 FOR UPDATE
\* locks every row of the user and waits while another transaction holds one.
LockTargets(p) ==
    LET id == LockIds(req[p])[IF pc[p] = "lock1" THEN 1 ELSE 2]
    IN  {Key(r) : r \in {b \in View(p) : b.user_id = id}}

acquireLock(p) ==
    /\ pc[p] \in {"lock1", "lock2"}
    /\ LET rows == LockTargets(p)
       IN  /\ \A k \in rows : ~LockedByOther(p, k)
           /\ held' = [held EXCEPT ![p] = held[p] \cup rows]
    /\ pc' = [pc EXCEPT ![p] = NextStep(pc[p])]
    /\ UNCHANGED <<users, balances, journal, nextId, now, scenario, req, resp,
                   txStart, wrDel, wrAdd, wrJ, failed, ret>>

\* SELECT COUNT(*) FROM transaction_history WHERE transaction_id = $1
\* as transaction p reads it, and the test count > 0.
DuplicateCount(p, transactionID) ==
    Cardinality({j \in journal \cup wrJ[p] : j.transaction_id = transactionID})

\* The duplicate check left out.
IsDuplicateNever(count) == FALSE

IsDuplicate(count) == count > 0

\* checkDuplicateTransaction
checkDuplicateTransaction(p) ==
    /\ pc[p] = "dup"
    /\ LET count == DuplicateCount(p, req[p].transaction_id)
       IN  IF IsDuplicate(count)
           THEN Fail(p, "Duplicate transaction", FALSE)
           ELSE /\ pc' = [pc EXCEPT ![p] = NextStep(pc[p])]
                /\ UNCHANGED <<ret, failed>>
    /\ UNCHANGED <<users, balances, journal, nextId, now, scenario, req, resp,
                   txStart, held, wrDel, wrAdd, wrJ>>

\* newAmount := currentBalance.Amount + amount
NewAmount(currentAmount, amount) == Wrap(currentAmount + amount, GoIntBits)

\* The balance check left out.
InsufficientBalanceNever(newAmount) == FALSE

\* if newAmount < 0 { return errors.New("Insufficient balance") }
InsufficientBalance(newAmount) == newAmount < 0

\* A column that takes any value.
IntegerNeverOutOfRange(v) == FALSE

\* amount INTEGER NOT NULL: the server rejects the INSERT of a value that
\* the column cannot hold (integer out of range).
IntegerOutOfRange(v) == v < MinInteger \/ v > MaxInteger

\* UPDATE balances SET valid_to = $1 WHERE user_id = $2 AND valid_to = '9999-12-31 23:59:59'
\* applied to one row it matches.
CloseRow(r, effectiveDate) == [r EXCEPT !.valid_to = effectiveDate]

\* PRIMARY KEY (user_id, valid_from) of balances: the rows an INSERT of key k
\* by transaction p collides with.
BalanceKeyTaken(p, rows, k) == \E r \in rows \cup balances : Key(r) = k

\* A lookup that takes a user without an open row to have a balance of 0.
CurrentBalanceOrZero(p, userID) ==
    IF OpenRows(View(p), userID) = {}
    THEN {Balance(userID, 0, Genesis, Inf)}
    ELSE OpenRows(View(p), userID)

\* The rows tx.Get(&currentBalance, SELECT ... valid_to = '9999-12-31 23:59:59')
\* may scan; with none it returns sql.ErrNoRows.
CurrentBalance(p, userID) == OpenRows(View(p), userID)

(***************************************************************************)
(* updateBalance(tx, req.SenderID, -req.Amount, req.EffectiveDate), then   *)
(* updateBalance(tx, req.ReceiverID, req.Amount, req.EffectiveDate).       *)
(* tx.Get scans the first row the SELECT returns: with several open rows   *)
(* that is any one of them.  The UPDATE closes every open row of the user, *)
(* the INSERT adds the new open row.  The transaction holds the locks of   *)
(* the user's rows, so the three statements are one step.                  *)
(***************************************************************************)
updateBalance(p) ==
    /\ pc[p] \in {"debit", "credit"}
    /\ LET userID == IF pc[p] = "debit" THEN req[p].sender_id ELSE req[p].receiver_id
           amount == IF pc[p] = "debit" THEN -req[p].amount ELSE req[p].amount
           effectiveDate == req[p].effective_date
           open == CurrentBalance(p, userID)
       IN  IF open = {}
           THEN /\ Fail(p, "Failed to get current balance", FALSE)
                /\ UNCHANGED <<held, wrDel, wrAdd>>
           ELSE \E currentBalance \in open :
                LET newAmount == NewAmount(currentBalance.amount, amount)
                    closed == {CloseRow(r, effectiveDate) : r \in open}
                    updated == (View(p) \ open) \cup closed
                    inserted == Balance(userID, newAmount, effectiveDate, Inf)
                IN  IF InsufficientBalance(newAmount)
                    THEN /\ Fail(p, "Insufficient balance", FALSE)
                         /\ UNCHANGED <<held, wrDel, wrAdd>>
                    ELSE \* the UPDATE waits for the row locks, the INSERT for an
                         \* uncommitted row of the same key
                         /\ \A r \in open : ~LockedByOther(p, Key(r))
                         /\ \A q \in Procs \ {p} :
                                \A r \in wrAdd[q] : Key(r) # Key(inserted)
                         /\ held' = [held EXCEPT ![p] = held[p] \cup {Key(r) : r \in open}]
                         /\ wrDel' = [wrDel EXCEPT ![p] = wrDel[p] \cup (open \cap balances)]
                         /\ IF \/ IntegerOutOfRange(newAmount)
                               \/ BalanceKeyTaken(p, updated, Key(inserted))
                            THEN /\ wrAdd' = [wrAdd EXCEPT ![p] = (wrAdd[p] \ open) \cup closed]
                                 /\ Fail(p, "Failed to insert new balance record", TRUE)
                            ELSE /\ wrAdd' = [wrAdd EXCEPT ![p] =
                                                (wrAdd[p] \ open) \cup closed \cup {inserted}]
                                 /\ pc' = [pc EXCEPT ![p] = NextStep(pc[p])]
                                 /\ UNCHANGED <<ret, failed>>
    /\ UNCHANGED <<users, balances, journal, nextId, now, scenario, req, resp,
                   txStart, wrJ>>

\* The schema without the UNIQUE constraint.
TransactionIdNeverTaken(p, transactionID) == FALSE

\* transaction_id VARCHAR(255) NOT NULL UNIQUE: the INSERT of transactionID by
\* transaction p collides with a row it can see.
TransactionIdTaken(p, transactionID) ==
    \E j \in journal \cup wrJ[p] : j.transaction_id = transactionID

\* The row recordTransaction inserts.  CURRENT_TIMESTAMP is the start time of
\* the transaction.
TransactionHistory(p) ==
    [id |-> nextId, sender_id |-> req[p].sender_id,
     receiver_id |-> req[p].receiver_id, amount |-> req[p].amount,
     transaction_id |-> req[p].transaction_id,
     effective_date |-> req[p].effective_date, recorded_at |-> txStart[p]]

\* recordTransaction: INSERT INTO transaction_history.  The INSERT waits while
\* another open transaction has inserted the same transaction_id; nextval of
\* the id sequence is not undone by a failure.
recordTransaction(p) ==
    /\ pc[p] = "record"
    /\ \A q \in Procs \ {p} :
          \A j \in wrJ[q] : j.transaction_id # req[p].transaction_id
    /\ nextId' = nextId + 1
    /\ IF TransactionIdTaken(p, req[p].transaction_id)
       THEN /\ Fail(p, "Failed to record transaction history", TRUE)
            /\ UNCHANGED wrJ
       ELSE /\ wrJ' = [wrJ EXCEPT ![p] = wrJ[p] \cup {TransactionHistory(p)}]
            /\ pc' = [pc EXCEPT ![p] = NextStep(pc[p])]
            /\ UNCHANGED <<ret, failed>>
    /\ UNCHANGED <<users, balances, journal, now, scenario, req, resp, txStart,
                   held, wrDel, wrAdd>>

(***************************************************************************)
(* The deferred function of processTransaction.  It tests the err declared *)
(* by  tx, err := db.Beginx() .  Every later  if err := f(...); err != nil *)
(* declares a new err in the scope of its if statement, so the err the     *)
(* deferred function reads is still nil whatever processTransaction        *)
(* returns, and the function goes on to tx.Commit().                       *)
(***************************************************************************)
DeferredSeesError(p) == FALSE

\* A COMMIT that keeps the writes of a failed transaction.
CommitsFailed(p) == TRUE

\* tx.Commit() on a transaction in the failed state rolls it back.
Commits(p) == ~DeferredSeesError(p) /\ ~failed[p]

\* The status HandleTransaction answers with: the value processTransaction
\* returned decides it.
Answer(p) ==
    IF ret[p] # "" THEN Response(500, ret[p]) ELSE Response(200, "")

\* A COMMIT that replaces the rows of transaction_history by p's.
JournalReplaced(p) == wrJ[p]

\* transaction_history after p's COMMIT: recordTransaction only ever INSERTs.
JournalAfterCommit(p) == journal \cup wrJ[p]

\* The outcomes tx.Commit() may have for reasons of the store's own (the
\* connection is lost, the server shuts down): TRUE is err != nil, with
\* the transaction rolled back.
CommitErrors(sc) == IF sc = "outage" THEN {FALSE, TRUE} ELSE {FALSE}

\* A transaction that keeps its row locks when it ends.
LocksKept(p) == held[p]

\* The row locks of a transaction that has ended: COMMIT and ROLLBACK release
\* them all.
LocksAfterEnd(p) == {}

\* return of processTransaction: the deferred commit or rollback, the release
\* of the row locks, and the response of HandleTransaction.  The deferred
\* function assigns the error of tx.Commit() to its local view of err and
\* logs it; the result of processTransaction is unnamed and was set by the
\* return statement, so the answer does not depend on it.
deferred(p) ==
    /\ pc[p] = "defer"
    /\ \E commitError \in CommitErrors(scenario) :
          IF Commits(p) /\ ~commitError
          THEN /\ balances' = View(p)
               /\ journal' = JournalAfterCommit(p)
          ELSE UNCHANGED <<balances, journal>>
    /\ held' = [held EXCEPT ![p] = LocksAfterEnd(p)]
    /\ wrDel' = [wrDel EXCEPT ![p] = {}]
    /\ wrAdd' = [wrAdd EXCEPT ![p] = {}]
    /\ wrJ' = [wrJ EXCEPT ![p] = {}]
    /\ failed' = [failed EXCEPT ![p] = FALSE]
    /\ ret' = [ret EXCEPT ![p] = ""]
    /\ txStart' = [txStart EXCEPT ![p] = 0]
    /\ resp' = [resp EXCEPT ![p] = Answer(p)]
    /\ pc' = [pc EXCEPT ![p] = "done"]
    /\ UNCHANGED <<users, nextId, now, scenario, req>>

\* The clock advances.
Tick ==
    /\ now < MaxTime
    /\ now' = now + 1
    /\ UNCHANGED <<users, balances, journal, nextId, scenario, pc, req, resp,
                   txStart, held, wrDel, wrAdd, wrJ, failed, ret>>

(***************************************************************************)
(* The read handlers.  NoAsOf stands for a request without the query       *)
(* parameter as_of (asOf == "").  db.Get answers with the first row of the *)
(* result, so with several matching rows the answer is any one of them; no *)
(* row is sql.ErrNoRows, answered 404.                                     *)
(***************************************************************************)
NoAsOf == -1
AsOfs == {NoAsOf} \cup (Genesis .. Inf)

BalanceRows(userID, asOf) ==
    IF asOf = NoAsOf
    THEN {r \in balances : r.user_id = userID /\ r.valid_to = Inf}
    ELSE {r \in balances : r.user_id = userID /\ r.valid_from <= asOf /\ r.valid_to > asOf}

GetBalanceAnswers(userID, asOf) ==
    IF BalanceRows(userID, asOf) = {}
    THEN {[code |-> 404, balance |-> Balance("", 0, 0, 0)]}
    ELSE {[code |-> 200, balance |-> r] : r \in BalanceRows(userID, asOf)}

\* A SELECT ... FOR UPDATE: it asks for the lock of every row it returns.
SelectForUpdate(rows) == {Key(r) : r \in rows}

\* The row locks the SELECT of a read handler asks for.  It has no locking
\* clause: it asks for none, and reads the committed rows whatever locks
\* the transfers hold.
SelectLocks(rows) == {}

\* HandleGetBalance: one SELECT outside any transaction; nothing is written
\* and no lock is taken.
HandleGetBalance(userID, asOf) ==
    /\ \A k \in SelectLocks(BalanceRows(userID, asOf)) :
          \A q \in Procs : k \notin held[q]
    /\ GetBalanceAnswers(userID, asOf) # {}
    /\ UNCHANGED vars

\* The rows HandleGetTransactionHistory selects (their order is by
\* effective_date DESC, recorded_at DESC).
HistoryRows(userID, asOf) ==
    IF asOf = NoAsOf
    THEN {j \in journal : j.sender_id = userID \/ j.receiver_id = userID}
    ELSE {j \in journal : (j.sender_id = userID \/ j.receiver_id = userID)
                            /\ j.effective_date <= asOf}

\* An ordering of the journal by effective_date ASC, recorded_at ASC.
OrderByAscending(a, b) ==
    \/ a.effective_date < b.effective_date
    \/ a.effective_date = b.effective_date /\ a.recorded_at <= b.recorded_at

\* ORDER BY effective_date DESC, recorded_at DESC: row a may stand before
\* row b in the result.
OrderBy(a, b) ==
    \/ a.effective_date > b.effective_date
    \/ a.effective_date = b.effective_date /\ a.recorded_at >= b.recorded_at

\* The results db.Select may fill history with: the selected rows, each
\* once, in an order the ORDER BY clause allows.
HistoryResults(userID, asOf) ==
    LET rows == HistoryRows(userID, asOf)
        n == Cardinality(rows)
    IN  {h \in [1 .. n -> rows] :
            /\ \A i, k \in 1 .. n : i # k => h[i] # h[k]
            /\ \A i, k \in 1 .. n : i < k => OrderBy(h[i], h[k])}

\* The answers of HandleGetTransactionHistory: 200 with the result.  The
\* handler has no 404.
GetTransactionHistoryAnswers(userID, asOf) ==
    {[code |-> 200, history |-> h] : h \in HistoryResults(userID, asOf)}

\* HandleGetTransactionHistory: one SELECT, answered 200 with the rows.
HandleGetTransactionHistory(userID, asOf) ==
    /\ GetTransactionHistoryAnswers(userID, asOf) # {}
    /\ UNCHANGED vars

Next ==
    \/ \E p \in Procs, c \in Requests(scenario) : HandleTransaction(p, c)
    \/ \E p \in Procs : processTransaction(p)
    \/ \E p \in Procs : acquireLock(p)
    \/ \E p \in Procs : checkDuplicateTransaction(p)
    \/ \E p \in Procs : updateBalance(p)
    \/ \E p \in Procs : recordTransaction(p)
    \/ \E p \in Procs : deferred(p)
    \/ Tick
    \/ \E u \in Ids, asOf \in AsOfs : HandleGetBalance(u, asOf)
    \/ \E u \in Ids, asOf \in AsOfs : HandleGetTransactionHistory(u, asOf)

Spec == Init /\ [][Next]_vars
SpecPairs == InitPairs /\ [][Next]_vars
SpecDuplicates == InitDuplicates /\ [][Next]_vars
SpecBoundary == InitBoundary /\ [][Next]_vars
SpecChain == InitChain /\ [][Next]_vars
SpecOutage == InitOutage /\ [][Next]_vars
SpecWidth == InitWidth /\ [][Next]_vars

\* The steps of the handler of one transfer request, from db.Beginx() to its
\* response.
Transfer(p) ==
    \/ processTransaction(p)
    \/ acquireLock(p)
    \/ checkDuplicateTransaction(p)
    \/ updateBalance(p)
    \/ recordTransaction(p)
    \/ deferred(p)

\* The chain scenario under fair scheduling: a handler whose next statement
\* the store can answer is eventually run (each handler is a goroutine of its
\* own, and the store answers every statement that is not waiting for a lock).
FairSpecChain == SpecChain /\ \A p \in Procs : WF_vars(Transfer(p))

(***************************************************************************)
(* Vocabulary of the properties.                                           *)
(***************************************************************************)
RECURSIVE SumAmount(_)
SumAmount(rows) ==
    IF rows = {} THEN 0
    ELSE LET r == CHOOSE x \in rows : TRUE
         IN  r.amount + SumAmount(rows \ {r})

\* Sum of amount over the open rows of all users.
OpenSum(rows) == SumAmount({r \in rows : r.valid_to = Inf})

\* The users the database is provisioned with an open balance row for.
Provisioned ==
    CASE scenario = "pairs" -> {"u1", "u2", "u3", "u4"}
      [] scenario \in {"chain", "width"} -> {"u1", "u2", "u3"}
      [] OTHER -> {"u1", "u2"}

\* Handler p returns in this step.
Returns(p) == pc[p] # "done" /\ pc'[p] = "done"

Ok(r) == r.code = 200
Duplicate(r) == r = Response(500, "Duplicate transaction")
PastDate(r) == r = Response(400, "effective_date before now")

\* The rows of user u whose interval [valid_from, valid_to) holds instant t.
Covering(rows, u, t) ==
    {r \in rows : r.user_id = u /\ r.valid_from <= t /\ t < r.valid_to}

----------------------------------------------------------------------------
(* C1. Conservation: a transfer request answered 200 leaves the sum of     *)
(* amount over all open balance rows as it was before the commit.          *)
C1_Conservation ==
    [][\A p \in Procs :
          (Returns(p) /\ Ok(resp'[p])) => OpenSum(balances') = OpenSum(balances)]_vars

(* C2. Atomicity on failure: a transfer request whose processTransaction   *)
(* returns an error leaves the committed balances and journal as they were.*)
C2_FailureChangesNothing ==
    [][\A p \in Procs :
          (Returns(p) /\ resp'[p].code = 500)
              => balances' = balances /\ journal' = journal]_vars

(* C3. Concurrent duplicates: when the clients send one and the same       *)
(* request, each passes validation and the transfer is one the store       *)
(* accepts, then exactly one is answered 200, every other one is answered  *)
(* 500 "Duplicate transaction", and each party has its one open balance    *)
(* moved by exactly one transfer.                                          *)
AllAnswered == \A p \in Procs : Order[p] <= Clients(scenario) => pc[p] = "done"

OneTransferApplied(c) ==
    /\ {r.amount : r \in OpenRows(balances, c.sender_id)}
          = {(IF c.sender_id = "u1" THEN 2 ELSE 1) - c.amount}
    /\ {r.amount : r \in OpenRows(balances, c.receiver_id)}
          = {(IF c.receiver_id = "u1" THEN 2 ELSE 1) + c.amount}

C3_ConcurrentDuplicates ==
    (/\ scenario = "duplicates"
     /\ AllAnswered
     /\ \A p \in Procs : resp[p].code # 400
     /\ \E p \in Procs : Ok(resp[p]))
        => /\ Cardinality({p \in Procs : Ok(resp[p])}) = 1
           /\ \A p \in Procs : Ok(resp[p]) \/ Duplicate(resp[p])
           /\ OneTransferApplied(req["h1"])

(* C4. Sequential idempotence, as stated: once a request has been answered *)
(* 200, a handler that returns for the same request answers                *)
(* 500 "Duplicate transaction" and changes no balance row and no journal   *)
(* row; the journal holds exactly one row of that transaction_id.          *)
Resubmitted(p, q) ==
    /\ p # q
    /\ pc[p] = "done" /\ Ok(resp[p])
    /\ Returns(q) /\ req'[q] = req[p]

C4_SecondIsDuplicate ==
    [][\A p, q \in Procs :
          Resubmitted(p, q)
              => /\ Duplicate(resp'[q])
                 /\ balances' = balances /\ journal' = journal
                 /\ Cardinality({j \in journal' :
                        j.transaction_id = req[p].transaction_id}) = 1]_vars

(* C4, amended. Once a request has been answered 200, a handler that       *)
(* returns for the same request answers 500 "Duplicate transaction", or    *)
(* 400 when its effective_date is before now() at the time it is received; *)
(* either way it changes no balance row and no journal row, and the        *)
(* journal holds exactly one row of that transaction_id.                   *)
C4_SecondIsRejected ==
    [][\A p, q \in Procs :
          Resubmitted(p, q)
              => /\ Duplicate(resp'[q]) \/ PastDate(resp'[q])
                 /\ PastDate(resp'[q]) => req'[q].effective_date < now
                 /\ balances' = balances /\ journal' = journal
                 /\ Cardinality({j \in journal' :
                        j.transaction_id = req[p].transaction_id}) = 1]_vars

C4_Witness ==
    \E p, q \in Procs :
        /\ p # q /\ pc[p] = "done" /\ pc[q] = "done" /\ req[p] = req[q]
        /\ Ok(resp[p]) /\ Duplicate(resp[q])

(* C5. Non-negativity: every committed balance row, open or closed, has    *)
(* amount >= 0.                                                            *)
C5_NonNegative == \A r \in balances : r.amount >= 0

\* Two transfers debited one sender for more than it had: one was answered
\* 200 and the other "Insufficient balance".
C5_Witness ==
    \E p, q \in Procs :
        /\ pc[p] = "done" /\ pc[q] = "done"
        /\ req[p].sender_id = req[q].sender_id
        /\ Ok(resp[p]) /\ resp[q] = Response(500, "Insufficient balance")
        /\ \E r \in balances : r.user_id = req[p].sender_id /\ r.amount = 0

(* C6. Single-open: every user provisioned with an open balance row has    *)
(* exactly one committed row with valid_to = 9999-12-31 23:59:59.          *)
C6_SingleOpen ==
    \A u \in Provisioned : Cardinality(OpenRows(balances, u)) = 1

(* C7. Partition: for every user, every instant from the first valid_from  *)
(* on lies in the interval [valid_from, valid_to) of exactly one committed *)
(* row of the user.                                                        *)
C7_Partition ==
    \A u \in Provisioned : \A t \in Genesis .. MaxTime :
        Cardinality(Covering(balances, u, t)) = 1

(* C8. Every committed balance row has valid_from < valid_to.              *)
C8_ValidFromBeforeValidTo == \A r \in balances : r.valid_from < r.valid_to

C10_JournalOnlyGrows == [][journal \subseteq journal']_vars

\* A journal row was committed and a later transfer committed another.
C10_Witness == Cardinality(journal) = 2

----------------------------------------------------------------------------
\* Handler p returns from processTransaction in this step: its request
\* passed validation and a unit of work was opened for it.
ReturnsFromTransaction(p) == pc[p] = "defer" /\ pc'[p] = "done"

UserMissing(r) == r = Response(500, "User does not exist")

(* C11. Unknown user: a transfer whose sender or receiver has no open      *)
(* balance row is answered 500 "User does not exist" and leaves every      *)
(* committed balance row and the journal as they were.                     *)
C11_UnknownUser ==
    [][\A p \in Procs :
          (/\ ReturnsFromTransaction(p)
           /\ \/ OpenRows(balances, req[p].sender_id) = {}
              \/ OpenRows(balances, req[p].receiver_id) = {})
              => /\ UserMissing(resp'[p])
                 /\ balances' = balances /\ journal' = journal]_vars

\* The amounts of the committed open rows of user u.
OpenAmounts(rows, u) == {r.amount : r \in OpenRows(rows, u)}

InsufficientFunds(r) == r = Response(500, "Insufficient balance")

(* C12. Insufficient funds: a transfer that passes the duplicate check and *)
(* whose amount is greater than the sender's open balance is answered     *)
(* 500 "Insufficient balance" and changes no balance row and no journal    *)
(* row; a transfer whose amount equals the sender's open balance is not    *)
(* refused for its amount and, once answered 200, leaves the sender's open *)
(* balance at 0.                                                           *)
C12_InsufficientFunds ==
    [][\A p \in Procs :
          LET open == OpenAmounts(balances, req[p].sender_id)
              amount == req[p].amount
          IN  (ReturnsFromTransaction(p) /\ open # {} /\ ~Duplicate(resp'[p]))
                 => /\ (\A x \in open : amount > x)
                        => /\ InsufficientFunds(resp'[p])
                           /\ balances' = balances /\ journal' = journal
                    /\ open = {amount}
                        => /\ ~InsufficientFunds(resp'[p])
                           /\ Ok(resp'[p])
                                => OpenAmounts(balances', req[p].sender_id) = {0}]_vars

\* The committed balance rows of user u.
RowsOf(rows, u) == {r \in rows : r.user_id = u}

(* C13. Successful transfer effect: when a transfer of amount a from s to  *)
(* r is answered 200, the open balance of s is its previous open balance   *)
(* minus a, the open balance of r is its previous open balance plus a, and *)
(* the balance rows of every other user are as they were.                  *)
C13_TransferEffect ==
    [][\A p \in Procs :
          LET s == req[p].sender_id
              r == req[p].receiver_id
              a == req[p].amount
          IN  (Returns(p) /\ Ok(resp'[p]))
                 => /\ OpenAmounts(balances', s) = {x - a : x \in OpenAmounts(balances, s)}
                    /\ OpenAmounts(balances', r) = {x + a : x \in OpenAmounts(balances, r)}
                    /\ \A u \in Ids \ {s, r} :
                          RowsOf(balances', u) = RowsOf(balances, u)]_vars

\* The amounts GET /balance/:userId?as_of=asOf may answer with.
AsOfAmounts(userID, asOf) == {r.amount : r \in BalanceRows(userID, asOf)}

(* C14. As-of law: when a transfer of amount a with effective date t is     *)
(* committed, a balance query for the sender with as_of = t answers the    *)
(* amount it answers for the instant before t minus a, for the receiver    *)
(* plus a, and a query with as_of before t answers what it answered before *)
(* the transfer.                                                           *)
C14_AsOfLaw ==
    [][\A p \in Procs :
          LET s == req[p].sender_id
              r == req[p].receiver_id
              a == req[p].amount
              t == req[p].effective_date
          IN  (Returns(p) /\ Ok(resp'[p]))
                 => /\ AsOfAmounts(s, t)' # {}
                    /\ AsOfAmounts(s, t)' = {x - a : x \in AsOfAmounts(s, t - 1)'}
                    /\ AsOfAmounts(r, t)' # {}
                    /\ AsOfAmounts(r, t)' = {x + a : x \in AsOfAmounts(r, t - 1)'}
                    /\ \A before \in Genesis .. (t - 1) :
                          /\ AsOfAmounts(s, before)' = AsOfAmounts(s, before)
                          /\ AsOfAmounts(r, before)' = AsOfAmounts(r, before)]_vars

\* Transaction p has got past checkDuplicateTransaction.
PassedDuplicateCheck(p) ==
    \/ pc[p] \in {"debit", "credit", "record"}
    \/ pc[p] = "defer" /\ ret[p] \notin {"User does not exist", "Duplicate transaction"}

\* Handler q returns having passed the duplicate check, and a transfer with
\* its transaction_id was committed meanwhile.
LostUniqueRace(q) ==
    /\ ReturnsFromTransaction(q)
    /\ PassedDuplicateCheck(q)
    /\ \E j \in journal : j.transaction_id = req[q].transaction_id

RecordFailed(r) == r = Response(500, "Failed to record transaction history")

SameEffectiveDate(p, q) ==
    /\ p # q /\ pc[p] = "done" /\ pc[q] = "done"
    /\ req[p].transaction_id # req[q].transaction_id
    /\ req[p].effective_date = req[q].effective_date
    /\ {req[p].sender_id, req[p].receiver_id}
          \cap {req[q].sender_id, req[q].receiver_id} # {}
    /\ resp[p].code # 400 /\ resp[q].code # 400

(* C17. Same effective date: two otherwise valid transfers of distinct     *)
(* transaction_ids with a common party and one effective_date are both     *)
(* answered 200, and the common party has a single row that begins at the  *)
(* effective_date, the open one.                                           *)
C17_SameEffectiveDate ==
    (scenario = "pairs")
        => \A p, q \in Procs :
              SameEffectiveDate(p, q)
                 => /\ Ok(resp[p]) /\ Ok(resp[q])
                    /\ \A u \in {req[p].sender_id, req[p].receiver_id}
                                  \cap {req[q].sender_id, req[q].receiver_id} :
                          {r \in RowsOf(balances, u) :
                              r.valid_from = req[p].effective_date}
                            = OpenRows(balances, u)

\* Handler p receives a request in this step.
Receives(p) == pc[p] = "idle" /\ pc'[p] # "idle"

\* The step answers p's request with 400 and opens no unit of work: no
\* transaction is begun, no lock taken, no row written.
RejectedAtOnce(p) ==
    /\ resp'[p].code = 400 /\ pc'[p] = "done"
    /\ UNCHANGED <<users, balances, journal, nextId, txStart, held, wrDel, wrAdd, wrJ>>

(* C18. Self-transfer: a request with sender_id = receiver_id, a positive  *)
(* amount and an effective_date not before now is answered 400 when it is  *)
(* received; no unit of work is opened and no row changes.                 *)
C18_SelfTransferRejected ==
    [][\A p \in Procs :
          (/\ Receives(p)
           /\ req'[p].sender_id = req'[p].receiver_id
           /\ Validate(req'[p])
           /\ ~Before(req'[p].effective_date, now))
              => RejectedAtOnce(p)]_vars

(* C19. Effective date in the past: a request that passes validation and   *)
(* whose effective_date is strictly before now is answered 400 when it is  *)
(* received, no unit of work is opened and no state changes; a request     *)
(* whose effective_date is now or later goes on to processTransaction.     *)
C19_PastDateRejected ==
    [][\A p \in Procs :
          (Receives(p) /\ Validate(req'[p]))
              => IF req'[p].effective_date < now
                 THEN RejectedAtOnce(p) /\ PastDate(resp'[p])
                 ELSE pc'[p] = "begin" /\ resp'[p] = NoResponse]_vars

\* One request was refused for its date while another, dated now, is about
\* to begin its transaction.
C19_Witness ==
    \E p, q \in Procs :
        /\ pc[p] = "done" /\ PastDate(resp[p]) /\ req[p].effective_date = now - 1
        /\ pc[q] = "begin" /\ req[q].effective_date = now

(* C20. Invalid amount: a request with amount = 0 or amount < 0 is         *)
(* answered 400 when it is received; no unit of work is opened, no lock is *)
(* taken and no balance row or journal row changes.                        *)
C20_InvalidAmountRejected ==
    [][\A p \in Procs :
          (Receives(p) /\ req'[p].amount <= 0) => RejectedAtOnce(p)]_vars

\* A request of amount 0 and a request of a negative amount were answered 400.
C20_Witness ==
    \E p, q \in Procs :
        /\ pc[p] = "done" /\ req[p].amount = 0 /\ resp[p].code = 400
        /\ pc[q] = "done" /\ req[q].amount < 0 /\ resp[q].code = 400

\* Transaction p cannot take its next step before transaction q ends: q
\* holds a row lock p's statement asks for, or has inserted, and not yet
\* committed, a key p's INSERT collides with.
WaitsFor(p, q) ==
    /\ p # q
    /\ \/ /\ pc[p] \in {"lock1", "lock2"}
          /\ LockTargets(p) \cap held[q] # {}
       \/ /\ pc[p] \in {"debit", "credit"}
          /\ LET userID == IF pc[p] = "debit" THEN req[p].sender_id
                                              ELSE req[p].receiver_id
             IN  \/ \E r \in OpenRows(View(p), userID) : Key(r) \in held[q]
                 \/ \E r \in wrAdd[q] : Key(r) = <<userID, req[p].effective_date>>
       \/ /\ pc[p] = "record"
          /\ \E j \in wrJ[q] : j.transaction_id = req[p].transaction_id

\* Some set of transactions in which each waits for another of the set.
Deadlocked ==
    \E S \in SUBSET Procs :
        S # {} /\ \A p \in S : \E q \in S : WaitsFor(p, q)

(* C15. Deadlock freedom: no reachable state has a set of concurrent       *)
(* transfers in which each waits for a lock held by another of the set.    *)
C15_DeadlockFree == ~Deadlocked

\* A chain of waits: p waits for q, which holds one party's rows and waits
\* for r.
C15_Witness ==
    \E p, q, r \in Procs :
        /\ p # r /\ WaitsFor(p, q) /\ WaitsFor(q, r)
        /\ held[q] # {}

----------------------------------------------------------------------------
\* Every request received so far was answered 200: the committed rows are
\* the work of accepted transfers only.
OnlyAccepted ==
    \A p \in Procs : pc[p] \in {"idle", "done"} /\ (pc[p] = "done" => Ok(resp[p]))

\* The committed rows of user u a balance query for asOf is to answer with.
Matching(u, asOf) ==
    IF asOf = NoAsOf THEN OpenRows(balances, u) ELSE Covering(balances, u, asOf)

(* C21. Balance projector: a balance query answers 200 with a row whose    *)
(* interval holds as_of (the open row without as_of) and 404 exactly when  *)
(* no such row exists; after any sequence of accepted transfers at most    *)
(* one row of a user matches a given instant.                              *)
C21_BalanceProjector ==
    \A u \in Ids, asOf \in AsOfs :
        /\ \A a \in GetBalanceAnswers(u, asOf) :
              /\ a.code = 404 <=> Matching(u, asOf) = {}
              /\ a.code = 200 => a.balance \in Matching(u, asOf)
        /\ OnlyAccepted => Cardinality(Matching(u, asOf)) <= 1

\* The committed journal rows that name user u and, with as_of given, are
\* dated as_of or earlier.
EntriesOf(u, asOf) ==
    {j \in journal : /\ u \in {j.sender_id, j.receiver_id}
                     /\ asOf # NoAsOf => j.effective_date <= asOf}

(* C22. History projector: a history query is answered 200 with exactly    *)
(* the committed journal rows that name the user and, with as_of given,    *)
(* have effective_date <= as_of, each once, ordered by effective_date      *)
(* descending and then recorded_at descending; for a user with no such     *)
(* row, an unknown user included, the answer is 200 with the empty         *)
(* sequence.                                                               *)
C22_HistoryProjector ==
    \A u \in Ids, asOf \in AsOfs :
        /\ GetTransactionHistoryAnswers(u, asOf) # {}
        /\ \A a \in GetTransactionHistoryAnswers(u, asOf) :
              LET h == a.history
              IN  /\ a.code = 200
                  /\ {h[i] : i \in DOMAIN h} = EntriesOf(u, asOf)
                  /\ Len(h) = Cardinality(EntriesOf(u, asOf))
                  /\ \A i, k \in DOMAIN h :
                        i < k => \/ h[i].effective_date > h[k].effective_date
                                 \/ /\ h[i].effective_date = h[k].effective_date
                                    /\ h[i].recorded_at >= h[k].recorded_at
                  /\ (u \notin users \/ EntriesOf(u, asOf) = {}) => h = <<>>

\* Two committed transfers of one user differ in effective_date, and the one
\* dated earlier was recorded later; a third user has no entry.
C22_Witness ==
    \E i, k \in journal :
        /\ i.sender_id = k.sender_id
        /\ i.effective_date < k.effective_date
        /\ i.recorded_at > k.recorded_at
        /\ EntriesOf("u3", NoAsOf) = {}

\* The amount of the open row user u is provisioned with.
InitialAmount(u) ==
    IF scenario = "width" /\ u = "u1" THEN MaxInteger - 1
    ELSE IF u \in {"u1", "u3"} THEN 2 ELSE 1

\* Handlers p and q have answered two transfers along one route, from a
\* sender to another user who has a balance, that passed validation and
\* carry distinct transaction_ids.
DistinctTransfers(p, q) ==
    /\ p # q /\ pc[p] = "done" /\ pc[q] = "done"
    /\ req[p].sender_id = req[q].sender_id
    /\ req[p].receiver_id = req[q].receiver_id
    /\ req[p].sender_id # req[p].receiver_id
    /\ {req[p].sender_id, req[p].receiver_id} \subseteq Provisioned
    /\ req[p].transaction_id # req[q].transaction_id
    /\ resp[p].code # 400 /\ resp[q].code # 400

(* C23. Concurrent distinct transfers all succeed: when the transfers sent *)
(* from one sender to one receiver carry pairwise distinct transaction_ids *)
(* and valid effective dates, and the sender's balance covers the sum of   *)
(* their amounts, every one of them is answered 200.                       *)
C23_DistinctAllSucceed ==
    \A p, q \in Procs :
        (/\ DistinctTransfers(p, q)
         /\ req[p].amount + req[q].amount <= InitialAmount(req[p].sender_id))
            => Ok(resp[p]) /\ Ok(resp[q])

\* The committed journal rows of transaction_id t.
JournalOf(rows, t) == {j \in rows : j.transaction_id = t}

(* C24. Response agrees with commit: a transfer request is answered 200    *)
(* only if its unit of work committed, so that the journal then holds      *)
(* exactly one row of its transaction_id and each party has a committed    *)
(* row that begins at its effective_date; a request whose commit fails is  *)
(* answered with an error.                                                 *)
C24_OkOnlyIfCommitted ==
    [][\A p \in Procs :
          (Returns(p) /\ Ok(resp'[p]))
              => /\ Cardinality(JournalOf(journal', req[p].transaction_id)) = 1
                 /\ \A u \in {req[p].sender_id, req[p].receiver_id} :
                       \E r \in RowsOf(balances', u) :
                           r.valid_from = req[p].effective_date]_vars

\* What the committed journal says user u has: the provisioned amount plus
\* the amounts received minus the amounts sent.
JournalBalance(u) ==
    InitialAmount(u) + SumAmount({j \in journal : j.receiver_id = u})
                     - SumAmount({j \in journal : j.sender_id = u})

(* C25. Balance-journal consistency: in every committed state the open     *)
(* balance row of every user holds the user's provisioned amount plus the  *)
(* amounts of the committed journal rows naming the user as receiver minus *)
(* those naming the user as sender.                                        *)
C25_BalanceMatchesJournal ==
    \A u \in Provisioned : OpenAmounts(balances, u) = {JournalBalance(u)}

\* Transaction p holds a lock on a balance row of user u.
HoldsLockOf(p, u) == \E k \in held[p] : k[1] = u

\* The user whose balance the next updateBalance of p is for.
UpdatedUser(p) == IF pc[p] = "debit" THEN req[p].sender_id ELSE req[p].receiver_id

\* Transaction p runs updateBalance in this step and its SELECT finds an
\* open row.
ReadsOpenRow(p) ==
    /\ pc[p] \in {"debit", "credit"} /\ pc'[p] # pc[p]
    /\ OpenRows(View(p), UpdatedUser(p)) # {}

(* C26. Mutation only under lock: a transfer reads or writes the open      *)
(* balance row of a user only while it holds the lock on that user's rows  *)
(* that it took in acquireLock; two transfers in flight never both hold a  *)
(* lock on rows of one user, and a transfer gives up its locks only when   *)
(* it commits or rolls back.                                               *)
C26_MutationUnderLock ==
    [][\A p \in Procs :
          /\ ReadsOpenRow(p) => HoldsLockOf(p, UpdatedUser(p))
          /\ \A r \in (wrAdd'[p] \ wrAdd[p]) \cup (wrDel'[p] \ wrDel[p]) :
                HoldsLockOf(p, r.user_id)
          /\ \A q \in Procs \ {p} : \A u \in Ids :
                ~(HoldsLockOf(p, u)' /\ HoldsLockOf(q, u)')
          /\ ~(held[p] \subseteq held'[p]) => ReturnsFromTransaction(p)]_vars

\* Transaction p has written the new rows of a user under its lock while
\* transaction q, which shares the user, waits for that lock.
C26_Witness ==
    \E p, q \in Procs : \E r \in wrAdd[p] :
        /\ HoldsLockOf(p, r.user_id)
        /\ r.user_id \in {req[q].sender_id, req[q].receiver_id}
        /\ WaitsFor(q, p)
        /\ ~HoldsLockOf(q, r.user_id)

\* The unit of work of p is open.
InFlight(p) == pc[p] \notin {"idle", "done"}

\* Handler p has returned a response and holds no row lock.
Returned(p) == pc[p] = "done" /\ resp[p] # NoResponse /\ held[p] = {}

(* C27. Termination: under fair scheduling every transfer whose unit of    *)
(* work is open eventually ends it by commit or rollback and returns a     *)
(* response, after which it holds no row lock; so every transfer that      *)
(* waits for a lock eventually gets past the wait.                         *)
C27_Termination ==
    \A p \in Procs : InFlight(p) ~> Returned(p)

\* One transfer has returned and holds no lock, a second one now holds the
\* rows of a user of the first, and a third waits for the second.
C27_Witness ==
    \E p, q, r \in Procs :
        /\ Returned(p)
        /\ \E u \in {req[p].sender_id, req[p].receiver_id} : HoldsLockOf(q, u)
        /\ WaitsFor(r, q)

\* The order of the steps the claim states, as pairs of positions.
StatedOrder ==
    {<<"begin", "lock1">>, <<"lock1", "lock2">>, <<"lock2", "dup">>,
     <<"dup", "debit">>, <<"debit", "credit">>, <<"credit", "record">>,
     <<"record", "defer">>}

\* Transaction p has written the new open row of user u.
Updated(p, u) ==
    \E r \in wrAdd[p] : r = Balance(u, r.amount, req[p].effective_date, Inf)

(* C28. Step ordering: within one transfer the steps run in the order lock *)
(* both parties, idempotency check, sender debit, receiver credit, journal *)
(* append, commit (a failing step goes straight to the return); no balance *)
(* row is written before the idempotency check has passed, the journal row *)
(* is written only after both balance updates succeeded, and nothing is    *)
(* committed before the return.                                            *)
C28_StepOrdering ==
    [][\A p \in Procs :
          /\ (pc[p] \notin {"idle", pc'[p]} /\ pc'[p] # "done")
                => \/ <<pc[p], pc'[p]>> \in StatedOrder
                   \/ pc'[p] = "defer" /\ ret'[p] # ""
          /\ pc'[p] = "dup" => \A u \in {req[p].sender_id, req[p].receiver_id} :
                                  RowsOf(balances, u) # {} => HoldsLockOf(p, u)'
          /\ (wrAdd'[p] # wrAdd[p] /\ pc'[p] # "done")
                => pc[p] \in {"debit", "credit"}
          /\ (wrJ'[p] # wrJ[p] /\ pc'[p] # "done")
                => /\ pc[p] = "record"
                   /\ Updated(p, req[p].sender_id)
                   /\ Updated(p, req[p].receiver_id)
          /\ pc'[p] = pc[p] => <<wrAdd'[p], wrDel'[p], wrJ'[p]>>
                                  = <<wrAdd[p], wrDel[p], wrJ[p]>>
          /\ (balances' # balances \/ journal' # journal)
                => \E q \in Procs : ReturnsFromTransaction(q)]_vars

\* One transfer has locked both parties, passed the idempotency check,
\* written both balances and the journal row, and is about to commit, with
\* nothing of it committed yet; another waits for its locks.
C28_Witness ==
    \E p, q \in Procs :
        /\ pc[p] = "defer" /\ ret[p] = "" /\ wrJ[p] # {}
        /\ Updated(p, req[p].sender_id) /\ Updated(p, req[p].receiver_id)
        /\ HoldsLockOf(p, req[p].sender_id) /\ HoldsLockOf(p, req[p].receiver_id)
        /\ journal = {} /\ balances = {Balance("u1", 2, Genesis, Inf),
                                        Balance("u2", 1, Genesis, Inf)}
        /\ WaitsFor(q, p)

\* The parties of the transfer that returns in this step.
Parties(p) == {req[p].sender_id, req[p].receiver_id}

(* C29. Closed rows are immutable: a committed balance row whose valid_to  *)
(* is no longer 9999-12-31 23:59:59 is never changed or deleted; a         *)
(* transfer only sets valid_to, to its effective_date, on open rows of its *)
(* parties and inserts at most one new row per party, an open one that     *)
(* begins at its effective_date.                                           *)
C29_ClosedRowsImmutable ==
    [][/\ \A r \in balances : r.valid_to # Inf => r \in balances'
       /\ (balances' # balances) =>
             \E p \in Procs :
                /\ ReturnsFromTransaction(p)
                /\ \A r \in balances \ balances' :
                      /\ r.user_id \in Parties(p) /\ r.valid_to = Inf
                      /\ [r EXCEPT !.valid_to = req[p].effective_date] \in balances'
                /\ \A r \in balances' \ balances :
                      /\ r.user_id \in Parties(p)
                      /\ \/ r = Balance(r.user_id, r.amount, req[p].effective_date, Inf)
                         \/ \E o \in balances \ balances' :
                                r = [o EXCEPT !.valid_to = req[p].effective_date]
                /\ \A u \in Parties(p) :
                      Cardinality({Key(r) : r \in RowsOf(balances', u)}
                                    \ {Key(r) : r \in RowsOf(balances, u)}) <= 1]_vars

\* A user has two closed rows: the second transfer closed the row the first
\* had opened and left the row the first had closed as it was.
C29_Witness ==
    \E r, o \in balances :
        /\ r.user_id = o.user_id
        /\ r.valid_to # Inf /\ o.valid_to # Inf
        /\ r.valid_from = Genesis /\ o.valid_from # Genesis

(* C30. Reads have no effect: in every state, whatever locks the transfers *)
(* in flight hold, a balance query and a history query, with or without    *)
(* as_of, for a known or an unknown user, can be answered at once, and     *)
(* answering it leaves users, balances and transaction_history and the row *)
(* locks of every transfer as they are.                                    *)
C30_ReadsHaveNoEffect ==
    \A u \in Ids, asOf \in AsOfs :
        /\ ENABLED (/\ HandleGetBalance(u, asOf)
                    /\ UNCHANGED <<users, balances, journal, held, pc>>)
        /\ ENABLED (/\ HandleGetTransactionHistory(u, asOf)
                    /\ UNCHANGED <<users, balances, journal, held, pc>>)

\* A transfer holds the lock of the open row a balance query answers with
\* and has written, not yet committed, the row that replaces it; another
\* query for an unknown user is answered 404.
C30_Witness ==
    \E p \in Procs : \E r \in BalanceRows(req[p].sender_id, NoAsOf) :
        /\ Key(r) \in held[p]
        /\ r \in wrDel[p]
        /\ [code |-> 200, balance |-> r] \in GetBalanceAnswers(req[p].sender_id, NoAsOf)
        /\ \A a \in GetBalanceAnswers("ghost", now) : a.code = 404

----------------------------------------------------------------------------
\* Table users as the database is provisioned with it.
InitialUsers ==
    IF scenario = "pairs" THEN {"u1", "u2", "u3", "u4"} ELSE {"u1", "u2", "u3"}

\* The users that own a row of the given balance rows.
Owners(rows) == {r.user_id : r \in rows}

(* C31. Users are never created, changed or removed: after any sequence of *)
(* transfer and query requests, answered 200 or refused, table users is    *)
(* what the database was provisioned with, and the users that own balance  *)
(* rows, committed or written by a transfer in flight, are those that      *)
(* owned one at the start.                                                 *)
C31_UsersUnchanged ==
    /\ users = InitialUsers
    /\ Owners(balances) = Provisioned
    /\ \A p \in Procs : Owners(View(p)) = Provisioned

\* A transfer to a user with a row in users and no balance row and a
\* transfer that names an unknown user have both been answered.
C31_Witness ==
    \E p, q \in Procs :
        /\ pc[p] = "done" /\ req[p].receiver_id = "u3"
        /\ resp[p] = Response(500, "Failed to get current balance")
        /\ pc[q] = "done" /\ "ghost" \in Parties(q) /\ UserMissing(resp[q])

\* Journal rows i and j name a common user.
ShareUser(i, j) ==
    {i.sender_id, i.receiver_id} \cap {j.sender_id, j.receiver_id} # {}

(* C32. recorded_at follows the order of commits: when a transfer commits  *)
(* its journal row, its recorded_at is greater than or equal to the        *)
(* recorded_at of every journal row committed earlier that shares a user   *)
(* with it, also when the transfer began its unit of work first and waited *)
(* for the lock.                                                           *)
C32_RecordedAtFollowsCommit ==
    [][\A j \in journal' \ journal : \A i \in journal :
          ShareUser(i, j) => j.recorded_at >= i.recorded_at]_vars

\* The values column amount can hold.
Integer == MinInteger .. MaxInteger

InsertFailed(r) == r = Response(500, "Failed to insert new balance record")

\* A committed row of a party of p's transfer begins at its effective_date:
\* the INSERT of the party's new row collides with it.
KeyClash(p) ==
    \E r \in balances : r.user_id \in Parties(p) /\ r.valid_from = req[p].effective_date

(* C33. No wrap-around on credit: a transfer for which the receiver's open *)
(* balance plus the amount exceeds the greatest INTEGER is refused with    *)
(* every committed row as it was; a transfer whose amount and resulting    *)
(* balances fit is not refused for its size (answered 200 unless it is a   *)
(* duplicate or its effective_date is one a party already has a row for);  *)
(* and every balance row, committed or written by a transfer in flight,    *)
(* holds the exact sum, a value of the column's range.                     *)
C33_NoWrapAround ==
    [][\A p \in Procs :
          LET sent == OpenAmounts(balances, req[p].sender_id)
              received == OpenAmounts(balances, req[p].receiver_id)
              a == req[p].amount
          IN  /\ (/\ ReturnsFromTransaction(p)
                  /\ received # {} /\ \A x \in received : x + a > MaxInteger)
                    => /\ resp'[p].code = 500
                       /\ balances' = balances /\ journal' = journal
              /\ (/\ ReturnsFromTransaction(p)
                  /\ sent # {} /\ \A x \in sent : x - a >= 0
                  /\ received # {} /\ \A x \in received : x + a <= MaxInteger)
                    => \/ Ok(resp'[p])
                       \/ Duplicate(resp'[p]) \/ RecordFailed(resp'[p])
                       \/ InsertFailed(resp'[p]) /\ KeyClash(p)
              /\ \A r \in balances' \cup wrAdd'[p] : r.amount \in Integer
              /\ \A r \in wrAdd'[p] \ View(p) :
                    r.valid_to = Inf
                       => \E o \in OpenRows(View(p), r.user_id) :
                             r.amount \in {o.amount + a, o.amount - a}]_vars

\* One transfer brought u1 to the greatest INTEGER and was answered 200; the
\* next one, of another effective_date and an amount its sender has, was
\* refused by the INSERT and u1 still holds the greatest INTEGER.
C33_Witness ==
    \E p, q \in Procs :
        /\ pc[p] = "done" /\ Ok(resp[p])
        /\ pc[q] = "done" /\ InsertFailed(resp[q])
        /\ req[q].amount <= InitialAmount(req[q].sender_id)
        /\ req[q].sender_id # req[p].sender_id
        /\ req[q].effective_date > req[p].effective_date
        /\ req[q].effective_date # Inf
        /\ OpenAmounts(balances, "u1") = {MaxInteger}
        /\ OpenAmounts(balances, req[q].sender_id) = {InitialAmount(req[q].sender_id)}
====
